---------------------------- MODULE Spec2Model ----------------------------
(* A model of the Redis cache-aside layer of app/cache.py: the backend     *)
(* handle, the hit/miss/error counters, the four primitive operations, the *)
(* liveness probe and the `cached` decorator.  Text (cache keys, stored    *)
(* JSON) is a sequence of one-character strings, so that json.dumps,       *)
(* json.loads, str() and ":".join are computed and not assumed.            *)
EXTENDS Integers, Sequences, FiniteSets, TLC

(***************************************************************************)
(* Bounds of the model.                                                    *)
(***************************************************************************)
\* operations performed in one behaviour
MaxOps == 3
\* operations of one behaviour of the metrics-accounting specification
MaxReads == 5
\* length of the sequences and mappings of the round-trip value domain
MaxLen == 2
\* request-handling threads calling one recorder concurrently
MaxThreads == 2
\* HTTP requests served in one behaviour
MaxRequests == 2

(***************************************************************************)
(* Python values.  A value is [t |-> type tag, v |-> payload].  Python's   *)
(* None is what json encodes as null and decodes null to: one value.       *)
(***************************************************************************)
PyNone == [t |-> "null", v |-> 0]
PyBool(b) == [t |-> "bool", v |-> b]
PyInt(n) == [t |-> "num", v |-> n]
PyStr(s) == [t |-> "str", v |-> s]
PyList(xs) == [t |-> "list", v |-> xs]
\* a dict: its items in insertion order, <<key text, value>>, keys distinct
PyDict(kv) == [t |-> "dict", v |-> kv]
\* a float of whole value n (n.0)
PyFloat(n) == [t |-> "float", v |-> n]
\* a value json.dumps cannot encode (a set, an arbitrary object)
PyObject == [t |-> "object", v |-> 0]
PyTrue == PyBool(TRUE)
PyFalse == PyBool(FALSE)

(***************************************************************************)
(* Characters and decimal numerals.                                        *)
(***************************************************************************)
QUOTE == "\""
BSLASH == "\\"
Digits == <<"0", "1", "2", "3", "4", "5", "6", "7", "8", "9">>
DigitSet == {Digits[i] : i \in 1..10}
DigitVal(c) == (CHOOSE i \in 1..10 : Digits[i] = c) - 1

RECURSIVE NatStr(_)
NatStr(n) == IF n < 10 THEN <<Digits[n + 1]>>
             ELSE NatStr(n \div 10) \o <<Digits[(n % 10) + 1]>>

\* str(n) / the JSON numeral of an int
IntStr(n) == IF n < 0 THEN <<"-">> \o NatStr(0 - n) ELSE NatStr(n)

RECURSIVE Join(_, _)
\* sep.join(parts)
Join(sep, parts) ==
    IF Len(parts) = 0 THEN <<>>
    ELSE IF Len(parts) = 1 THEN parts[1]
    ELSE parts[1] \o sep \o Join(sep, Tail(parts))

(***************************************************************************)
(* json.dumps (default separators ", " and ": ", ensure_ascii).            *)
(***************************************************************************)
RECURSIVE EscapeChars(_)
EscapeChars(s) ==
    IF Len(s) = 0 THEN <<>>
    ELSE (IF Head(s) \in {QUOTE, BSLASH} THEN <<BSLASH, Head(s)>> ELSE <<Head(s)>>)
         \o EscapeChars(Tail(s))

QuoteStr(s) == <<QUOTE>> \o EscapeChars(s) \o <<QUOTE>>

RECURSIVE Serializable(_)
\* whether json.dumps(x) returns (TRUE) or raises TypeError (FALSE)
Serializable(x) ==
    CASE x.t \in {"null", "bool", "num", "float", "str"} -> TRUE
      [] x.t = "list" -> \A i \in 1..Len(x.v) : Serializable(x.v[i])
      [] x.t = "dict" -> \A i \in 1..Len(x.v) : Serializable(x.v[i][2])
      [] OTHER -> FALSE

RECURSIVE Encode(_)
Encode(x) ==
    CASE x.t = "null" -> <<"n", "u", "l", "l">>
      [] x.t = "bool" -> IF x.v THEN <<"t", "r", "u", "e">>
                         ELSE <<"f", "a", "l", "s", "e">>
      [] x.t = "num" -> IntStr(x.v)
      [] x.t = "float" -> IntStr(x.v) \o <<".", "0">>
      [] x.t = "str" -> QuoteStr(x.v)
      [] x.t = "list" ->
           <<"[">> \o Join(<<",", " ">>, [i \in 1..Len(x.v) |-> Encode(x.v[i])])
                   \o <<"]">>
      [] x.t = "dict" ->
           <<"{">> \o Join(<<",", " ">>,
                           [i \in 1..Len(x.v) |->
                              QuoteStr(x.v[i][1]) \o <<":", " ">> \o Encode(x.v[i][2])])
                   \o <<"}">>

\* json.dumps(x): [raised, text]
json_dumps(x) ==
    IF Serializable(x) THEN [raised |-> FALSE, text |-> Encode(x)]
    ELSE [raised |-> TRUE, text |-> <<>>]

(***************************************************************************)
(* json.loads: a recursive-descent parser of the JSON texts of the model   *)
(* (null, true, false, integers, strings with \" and \\ escapes, arrays,   *)
(* objects, blanks between tokens).  A parse result is [ok, val, next].    *)
(***************************************************************************)
ParseFail == [ok |-> FALSE, val |-> PyNone, next |-> 0]
ParseOk(val, next) == [ok |-> TRUE, val |-> val, next |-> next]

RECURSIVE SkipWs(_, _)
SkipWs(s, i) == IF i <= Len(s) /\ s[i] = " " THEN SkipWs(s, i + 1) ELSE i

StartsWith(s, i, w) ==
    /\ i + Len(w) - 1 <= Len(s)
    /\ SubSeq(s, i, i + Len(w) - 1) = w

RECURSIVE ParseChars(_, _, _)
\* the characters of a string, from the one after its opening quote
ParseChars(s, i, acc) ==
    IF i > Len(s) THEN ParseFail
    ELSE IF s[i] = QUOTE THEN ParseOk(PyStr(acc), i + 1)
    ELSE IF s[i] = BSLASH
         THEN IF i + 1 <= Len(s) /\ s[i + 1] \in {QUOTE, BSLASH}
              THEN ParseChars(s, i + 2, Append(acc, s[i + 1]))
              ELSE ParseFail
    ELSE ParseChars(s, i + 1, Append(acc, s[i]))

RECURSIVE ParseDigits(_, _, _)
ParseDigits(s, i, acc) ==
    IF i <= Len(s) /\ s[i] \in DigitSet
    THEN ParseDigits(s, i + 1, acc * 10 + DigitVal(s[i]))
    ELSE ParseOk(PyInt(acc), i)

\* an unsigned integer: "0", or a nonzero digit and more digits
ParseNat(s, i) ==
    IF i > Len(s) \/ s[i] \notin DigitSet THEN ParseFail
    ELSE IF s[i] = "0" THEN ParseOk(PyInt(0), i + 1)
    ELSE ParseDigits(s, i, 0)

\* dict[key] = val: a repeated key keeps its place and takes the new value
\* the number r followed by ".0" is the float of that value (fractions other
\* than .0 are not read)
ParseFrac(s, r) ==
    IF /\ r.ok /\ r.next + 1 <= Len(s)
       /\ s[r.next] = "." /\ s[r.next + 1] = "0"
       /\ (r.next + 2 > Len(s) \/ s[r.next + 2] \notin DigitSet)
    THEN ParseOk(PyFloat(r.val.v), r.next + 2)
    ELSE r

PutItem(kv, key, val) ==
    IF \E j \in 1..Len(kv) : kv[j][1] = key
    THEN [j \in 1..Len(kv) |-> IF kv[j][1] = key THEN <<key, val>> ELSE kv[j]]
    ELSE Append(kv, <<key, val>>)

RECURSIVE ParseValue(_, _), ParseElems(_, _, _), ParseMembers(_, _, _)
ParseValue(s, i) ==
    IF i > Len(s) THEN ParseFail
    ELSE IF StartsWith(s, i, <<"n", "u", "l", "l">>) THEN ParseOk(PyNone, i + 4)
    ELSE IF StartsWith(s, i, <<"t", "r", "u", "e">>) THEN ParseOk(PyTrue, i + 4)
    ELSE IF StartsWith(s, i, <<"f", "a", "l", "s", "e">>) THEN ParseOk(PyFalse, i + 5)
    ELSE IF s[i] = QUOTE THEN ParseChars(s, i + 1, <<>>)
    ELSE IF s[i] = "-"
         THEN LET r == ParseNat(s, i + 1)
              IN IF r.ok THEN ParseOk(PyInt(0 - r.val.v), r.next) ELSE ParseFail
    ELSE IF s[i] \in DigitSet THEN ParseFrac(s, ParseNat(s, i))
    ELSE IF s[i] = "["
         THEN LET j == SkipWs(s, i + 1)
              IN IF j <= Len(s) /\ s[j] = "]" THEN ParseOk(PyList(<<>>), j + 1)
                 ELSE ParseElems(s, j, <<>>)
    ELSE IF s[i] = "{"
         THEN LET j == SkipWs(s, i + 1)
              IN IF j <= Len(s) /\ s[j] = "}" THEN ParseOk(PyDict(<<>>), j + 1)
                 ELSE ParseMembers(s, j, <<>>)
    ELSE ParseFail

\* value ("," value)* "]", from the first value
ParseElems(s, i, acc) ==
    LET r == ParseValue(s, i)
    IN IF ~r.ok THEN ParseFail
       ELSE LET j == SkipWs(s, r.next)
            IN IF j > Len(s) THEN ParseFail
               ELSE IF s[j] = "]" THEN ParseOk(PyList(Append(acc, r.val)), j + 1)
               ELSE IF s[j] = "," THEN ParseElems(s, SkipWs(s, j + 1), Append(acc, r.val))
               ELSE ParseFail

\* string ":" value ("," string ":" value)* "}", from the first string
ParseMembers(s, i, acc) ==
    IF i > Len(s) \/ s[i] # QUOTE THEN ParseFail
    ELSE LET k == ParseChars(s, i + 1, <<>>)
         IN IF ~k.ok THEN ParseFail
            ELSE LET c == SkipWs(s, k.next)
                 IN IF c > Len(s) \/ s[c] # ":" THEN ParseFail
                    ELSE LET r == ParseValue(s, SkipWs(s, c + 1))
                         IN IF ~r.ok THEN ParseFail
                            ELSE LET j == SkipWs(s, r.next)
                                     kv == PutItem(acc, k.val.v, r.val)
                                 IN IF j > Len(s) THEN ParseFail
                                    ELSE IF s[j] = "}" THEN ParseOk(PyDict(kv), j + 1)
                                    ELSE IF s[j] = ","
                                         THEN ParseMembers(s, SkipWs(s, j + 1), kv)
                                    ELSE ParseFail

\* json.loads(text): [raised, val]; trailing text other than blanks raises
json_loads(s) ==
    LET r == ParseValue(s, SkipWs(s, 1))
    IN IF r.ok /\ SkipWs(s, r.next) = Len(s) + 1
       THEN [raised |-> FALSE, val |-> r.val]
       ELSE [raised |-> TRUE, val |-> PyNone]

(***************************************************************************)
(* The program state.                                                      *)
(***************************************************************************)
VARIABLES
    redis_client,   \* the module-level handle: "None" or "Redis"
    boot,           \* what the import met: REDIS_ENABLED, whether the backend
                    \* answered, and the connection attempts made so far
    written,        \* per key, the ttl of the write that stored the text it
                    \* last received and the seconds passed since (2: 2 or more)
    store,          \* the backend's db 0: key text -> [text, ttl]; ttl 0 = no expiry
    cmds,           \* commands issued to the backend through the handle
    hits,           \* cache_metrics.hits
    misses,         \* cache_metrics.misses
    errors,         \* cache_metrics.errors
    calls,          \* invocations of each decorated function's body
    wcalls,         \* invocations of each decorated function's wrapper
    last,           \* the operation completed last: inputs, result, what raised
    prev,           \* the operation completed before it
    seen,           \* reads since the last reset, by what the backend held
    nops,           \* operations performed
    pc,             \* per thread: "idle", or the counter it is incrementing
    reg,            \* per thread: the counter value it loaded
    done            \* completed calls of each recorder

vars == <<redis_client, boot, written, store, cmds, hits, misses, errors, calls, wcalls,
          last, prev, seen, nops, pc, reg, done>>

\* the part of the state the cache functions read and write
Mem == [store |-> store, cmds |-> cmds, hits |-> hits, misses |-> misses,
        errors |-> errors]

(***************************************************************************)
(* Module initialisation of the handle.                                    *)
(***************************************************************************)
\* REDIS_ENABLED; redis.Redis(...) and ping() succeed (connected) or raise
ModuleInit(enabled, connected) ==
    IF enabled
    THEN IF connected THEN "Redis" ELSE "None"
    ELSE "None"

\* what the import met, and the connection attempts it made: one inside
\* `if REDIS_ENABLED:`, none otherwise
Boot(enabled, connected) ==
    [enabled |-> enabled, connected |-> connected,
     attempts |-> IF enabled THEN 1 ELSE 0]

(***************************************************************************)
(* CacheMetrics.                                                           *)
(***************************************************************************)
record_hit(m) == [m EXCEPT !.hits = @ + 1]
record_miss(m) == [m EXCEPT !.misses = @ + 1]
record_error(m) == [m EXCEPT !.errors = @ + 1]

\* a / b: [raised, num, den]; a zero divisor raises ZeroDivisionError
Divide(a, b) ==
    IF b = 0 THEN [raised |-> TRUE, num |-> 0, den |-> 1]
    ELSE [raised |-> FALSE, num |-> a, den |-> b]

\* get_hit_rate without its `if total > 0` test
get_hit_rate_unguarded(m) == Divide(m.hits * 100, m.hits + m.misses)

\* hits / total * 100 as the fraction num/den, or 0.0 when total is 0
get_hit_rate(m) ==
    LET total == m.hits + m.misses
    IN IF total > 0 THEN Divide(m.hits * 100, total)
       ELSE [raised |-> FALSE, num |-> 0, den |-> 1]

\* round(num/den, 2), in hundredths (a tie goes to the even hundredth)
Round2(num, den) ==
    LET q == (num * 100) \div den
        r == (num * 100) % den
    IN IF 2 * r < den THEN q
       ELSE IF 2 * r > den THEN q + 1
       ELSE IF q % 2 = 0 THEN q ELSE q + 1

\* the snapshot; hit_rate in hundredths of a percent; raised: get_hit_rate raised
get_stats(m) ==
    LET r == get_hit_rate(m)
    IN [raised |-> r.raised,
        hits |-> m.hits, misses |-> m.misses, errors |-> m.errors,
        hit_rate |-> Round2(r.num, r.den),
        total_requests |-> m.hits + m.misses]

reset(m) == [m EXCEPT !.hits = 0, !.misses = 0, !.errors = 0]

(***************************************************************************)
(* The backend commands, as redis-py returns or raises.  `fail` is a       *)
(* network or protocol error of this one call.                             *)
(***************************************************************************)
Issue(m) == [m EXCEPT !.cmds = @ + 1]

\* GET key: nil (None) or the stored text (decode_responses=True)
RedisGet(m, key, fail) ==
    IF fail THEN [raised |-> TRUE, m |-> Issue(m), nil |-> TRUE, text |-> <<>>]
    ELSE IF key \in DOMAIN m.store
    THEN [raised |-> FALSE, m |-> Issue(m), nil |-> FALSE, text |-> m.store[key].text]
    ELSE [raised |-> FALSE, m |-> Issue(m), nil |-> TRUE, text |-> <<>>]

PutKey(st, key, entry) ==
    [k \in DOMAIN st \cup {key} |-> IF k = key THEN entry ELSE st[k]]

DropKey(st, key) == [k \in DOMAIN st \ {key} |-> st[k]]

\* SETEX key ttl text: the server rejects ttl <= 0 (invalid expire time)
RedisSetex(m, key, ttl, text, fail) ==
    IF fail \/ ttl <= 0 THEN [raised |-> TRUE, m |-> Issue(m)]
    ELSE [raised |-> FALSE,
          m |-> [Issue(m) EXCEPT !.store = PutKey(@, key, [text |-> text, ttl |-> ttl])]]

\* DEL answering a missing key with an error
RedisDelete_missing_raises(m, key, fail) ==
    IF fail \/ key \notin DOMAIN m.store THEN [raised |-> TRUE, m |-> Issue(m)]
    ELSE [raised |-> FALSE, m |-> [Issue(m) EXCEPT !.store = DropKey(@, key)]]

RedisDelete(m, key, fail) ==
    IF fail THEN [raised |-> TRUE, m |-> Issue(m)]
    ELSE [raised |-> FALSE, m |-> [Issue(m) EXCEPT !.store = DropKey(@, key)]]

RedisFlushdb(m, fail) ==
    IF fail THEN [raised |-> TRUE, m |-> Issue(m)]
    ELSE [raised |-> FALSE, m |-> [Issue(m) EXCEPT !.store = <<>>]]

RedisPing(m, fail) ==
    IF fail THEN [raised |-> TRUE, m |-> Issue(m)]
    ELSE [raised |-> FALSE, m |-> Issue(m)]

\* INFO: the server's figures, as a dict
RedisInfo(m, fail) ==
    IF fail THEN [raised |-> TRUE, m |-> Issue(m), info |-> <<>>]
    ELSE [raised |-> FALSE, m |-> Issue(m),
          info |-> [connected_clients |-> 1,
                    total_commands_processed |-> m.cmds + 1]]

\* info.get(name, default)
InfoGet(info, name, default) ==
    IF name \in DOMAIN info THEN info[name] ELSE default

(***************************************************************************)
(* The core cache functions.  A result is [m, ret, exc]: the state after,  *)
(* the value returned, and whether an exception left the function instead. *)
(***************************************************************************)
Return(m, v) == [m |-> m, ret |-> v, exc |-> FALSE]
Propagate(m) == [m |-> m, ret |-> PyNone, exc |-> TRUE]

\* `if value:` on what GET returned: None and the empty text are falsy
Truthy(g) == ~g.nil /\ Len(g.text) > 0

\* get_cache testing the decoded value, not the stored text, for truth
get_cache_truthy_decoded(m, key, fail) ==
    IF redis_client = "None" THEN Return(m, PyNone)
    ELSE LET g == RedisGet(m, key, fail)
         IN IF g.raised THEN Return(record_error(g.m), PyNone)
            ELSE IF g.nil THEN Return(record_miss(g.m), PyNone)
            ELSE LET d == json_loads(g.text)
                 IN IF d.raised THEN Return(record_error(g.m), PyNone)
                    ELSE IF d.val \in {PyNone, PyFalse, PyInt(0), PyStr(<<>>),
                                       PyList(<<>>), PyDict(<<>>)}
                    THEN Return(record_miss(g.m), PyNone)
                    ELSE Return(record_hit(g.m), d.val)

\* get_cache with json.loads moved out of the try block
get_cache_decode_unguarded(m, key, fail) ==
    IF redis_client = "None" THEN Return(m, PyNone)
    ELSE LET g == RedisGet(m, key, fail)
         IN IF g.raised THEN Return(record_error(g.m), PyNone)
            ELSE IF Truthy(g)
            THEN LET h == record_hit(g.m)
                     d == json_loads(g.text)
                 IN IF d.raised THEN Propagate(h)
                    ELSE Return(h, d.val)
            ELSE Return(record_miss(g.m), PyNone)

\* get_cache without its `if not redis_client` test: the call on None raises
\* AttributeError inside the try block
get_cache_no_handle_test(m, key, fail) ==
    LET g == IF redis_client = "None"
             THEN [raised |-> TRUE, m |-> m, nil |-> TRUE, text |-> <<>>]
             ELSE RedisGet(m, key, fail)
    IN IF g.raised THEN Return(record_error(g.m), PyNone)
       ELSE IF Truthy(g)
       THEN LET h == record_hit(g.m)
                d == json_loads(g.text)
            IN IF d.raised THEN Return(record_error(h), PyNone)
               ELSE Return(h, d.val)
       ELSE Return(record_miss(g.m), PyNone)

get_cache(m, key, fail) ==
    IF redis_client = "None" THEN Return(m, PyNone)
    ELSE LET g == RedisGet(m, key, fail)
         IN IF g.raised THEN Return(record_error(g.m), PyNone)
            ELSE IF Truthy(g)
            THEN LET h == record_hit(g.m)
                     d == json_loads(g.text)
                 IN IF d.raised THEN Return(record_error(h), PyNone)
                    ELSE Return(h, d.val)
            ELSE Return(record_miss(g.m), PyNone)

\* set_cache handing setex its default ttl (300) whatever ttl it was given
set_cache_default_ttl(m, key, value, ttl, fail) ==
    IF redis_client = "None" THEN Return(m, PyFalse)
    ELSE LET d == json_dumps(value)
         IN IF d.raised THEN Return(record_error(m), PyFalse)
            ELSE LET s == RedisSetex(m, key, 300, d.text, fail)
                 IN IF s.raised THEN Return(record_error(s.m), PyFalse)
                    ELSE Return(s.m, PyTrue)

\* set_cache with a bare `return` where it finds no handle
set_cache_bare_return(m, key, value, ttl, fail) ==
    IF redis_client = "None" THEN Return(m, PyNone)
    ELSE LET d == json_dumps(value)
         IN IF d.raised THEN Return(record_error(m), PyFalse)
            ELSE LET s == RedisSetex(m, key, ttl, d.text, fail)
                 IN IF s.raised THEN Return(record_error(s.m), PyFalse)
                    ELSE Return(s.m, PyTrue)

set_cache(m, key, value, ttl, fail) ==
    IF redis_client = "None" THEN Return(m, PyFalse)
    ELSE LET d == json_dumps(value)
         IN IF d.raised THEN Return(record_error(m), PyFalse)
            ELSE LET s == RedisSetex(m, key, ttl, d.text, fail)
                 IN IF s.raised THEN Return(record_error(s.m), PyFalse)
                    ELSE Return(s.m, PyTrue)

delete_cache(m, key, fail) ==
    IF redis_client = "None" THEN Return(m, PyFalse)
    ELSE LET r == RedisDelete(m, key, fail)
         IN IF r.raised THEN Return(r.m, PyFalse)
            ELSE Return(r.m, PyTrue)

clear_cache(m, fail) ==
    IF redis_client = "None" THEN Return(m, PyFalse)
    ELSE LET r == RedisFlushdb(m, fail)
         IN IF r.raised THEN Return(r.m, PyFalse)
            ELSE Return(r.m, PyTrue)

check_cache_connection(m, fail) ==
    IF redis_client = "None" THEN Return(m, PyFalse)
    ELSE LET r == RedisPing(m, fail)
         IN IF r.raised THEN Return(r.m, PyFalse)
            ELSE Return(r.m, PyTrue)

\* the dict get_cache_stats returns: the snapshot s, and redis_info when set
StatsDict(s, redis_info) ==
    [t |-> "stats",
     v |-> [hits |-> s.hits, misses |-> s.misses, errors |-> s.errors,
            hit_rate |-> s.hit_rate, total_requests |-> s.total_requests,
            redis_info |-> redis_info]]

\* stats["redis_info"] = {...}
RedisInfoDict(info) ==
    [used_memory_human |-> InfoGet(info, "used_memory_human", "N/A"),
     connected_clients |-> InfoGet(info, "connected_clients", 0),
     total_commands_processed |-> InfoGet(info, "total_commands_processed", 0),
     keyspace_hits |-> InfoGet(info, "keyspace_hits", 0),
     keyspace_misses |-> InfoGet(info, "keyspace_misses", 0)]

\* get_cache_stats with redis_client.info() outside the try block
get_cache_stats_unguarded(m, fail) ==
    LET s == get_stats(m)
    IN IF s.raised THEN Propagate(m)
       ELSE IF redis_client = "None" THEN Return(m, StatsDict(s, <<>>))
       ELSE LET i == RedisInfo(m, fail)
            IN IF i.raised THEN Propagate(i.m)
               ELSE Return(i.m, StatsDict(s, <<RedisInfoDict(i.info)>>))

get_cache_stats(m, fail) ==
    LET s == get_stats(m)
    IN IF s.raised THEN Propagate(m)
       ELSE IF redis_client = "None" THEN Return(m, StatsDict(s, <<>>))
       ELSE LET i == RedisInfo(m, fail)
            IN IF i.raised THEN Return(i.m, StatsDict(s, <<>>))
               ELSE Return(i.m, StatsDict(s, <<RedisInfoDict(i.info)>>))

(***************************************************************************)
(* The `cached` decorator.                                                 *)
(***************************************************************************)
\* str(x) of an argument
Str(x) ==
    CASE x.t = "null" -> <<"N", "o", "n", "e">>
      [] x.t = "bool" -> IF x.v THEN <<"T", "r", "u", "e">>
                         ELSE <<"F", "a", "l", "s", "e">>
      [] x.t = "num" -> IntStr(x.v)
      [] x.t = "float" -> IntStr(x.v) \o <<".", "0">>
      [] x.t = "str" -> x.v

\* the characters of keyword names, in code-point order
Alphabet == <<"a", "b", "c", "d", "e">>
Ord(c) == CHOOSE i \in 1..Len(Alphabet) : Alphabet[i] = c

RECURSIVE TextLess(_, _)
\* x < y on str
TextLess(x, y) ==
    IF Len(y) = 0 THEN FALSE
    ELSE IF Len(x) = 0 THEN TRUE
    ELSE IF Head(x) = Head(y) THEN TextLess(Tail(x), Tail(y))
    ELSE Ord(Head(x)) < Ord(Head(y))

RECURSIVE Insert(_, _)
Insert(item, q) ==
    IF Len(q) = 0 THEN <<item>>
    ELSE IF TextLess(item[1], Head(q)[1]) THEN <<item>> \o q
    ELSE <<Head(q)>> \o Insert(item, Tail(q))

RECURSIVE Sorted(_)
\* sorted(kwargs.items()): kwargs are <<name, value>> in the order passed, the
\* names distinct, so the order is that of the names
Sorted(kw) == IF Len(kw) = 0 THEN <<>> ELSE Insert(Head(kw), Sorted(Tail(kw)))

\* the key without sorted(): the keyword arguments in the order passed
cache_key_unsorted(d, args, kwargs) ==
    Join(<<":">>,
         <<IF d.key_prefix # <<>> THEN d.key_prefix ELSE d.name>>
         \o [i \in 1..Len(args) |-> Str(args[i])]
         \o [i \in 1..Len(kwargs) |-> kwargs[i][1] \o <<":">> \o Str(kwargs[i][2])])

\* cache_key of a call of the function decorated as d
cache_key(d, args, kwargs) ==
    Join(<<":">>,
         <<IF d.key_prefix # <<>> THEN d.key_prefix ELSE d.name>>
         \o [i \in 1..Len(args) |-> Str(args[i])]
         \o [i \in 1..Len(kwargs) |->
               Sorted(kwargs)[i][1] \o <<":">> \o Str(Sorted(kwargs)[i][2])])

\* the decorated functions: func.__name__, the decorator's key_prefix and ttl,
\* and what the body returns ("load": what a source of truth holds when the
\* body runs, an input of the step that runs it)
Decorated ==
    [fNull |-> [name |-> <<"n">>, key_prefix |-> <<>>, ttl |-> 2, body |-> "none"],
     fEcho |-> [name |-> <<"f">>, key_prefix |-> <<"p">>, ttl |-> 2, body |-> "echo"],
     fLoad |-> [name |-> <<"g">>, key_prefix |-> <<>>, ttl |-> 2, body |-> "load"]]

\* func(*args, **kwargs): "none" returns None; "echo" returns its one
\* argument, or the list of its arguments (by position, then by name)
Func(f, args, kwargs) ==
    LET vals == args \o [i \in 1..Len(kwargs) |-> Sorted(kwargs)[i][2]]
    IN IF Decorated[f].body = "none" THEN PyNone
       ELSE IF Len(vals) = 1 THEN vals[1]
       ELSE PyList(vals)

WResult(m, v, exc, invoked, wrote, stored) ==
    [m |-> m, ret |-> v, exc |-> exc, invoked |-> invoked, wrote |-> wrote,
     stored |-> stored]

\* lines 207-209: set_cache has returned w; the wrapper returns result
AfterSet(w, result) == WResult(w.m, result, w.exc, TRUE, TRUE, w.ret = PyTrue)

\* lines 206-209 without `if result is not None:` before set_cache
AfterFunc_stores_none(m, result, key, ttl, sfail) ==
    AfterSet(set_cache(m, key, result, ttl, sfail), result)

\* lines 206-209 without the call of set_cache
AfterFunc_unstored(m, result, key, ttl, sfail) ==
    WResult(m, result, FALSE, TRUE, FALSE, FALSE)

\* lines 206-209: func has returned result
AfterFunc(m, result, key, ttl, sfail) ==
    IF result # PyNone
    THEN AfterSet(set_cache(m, key, result, ttl, sfail), result)
    ELSE WResult(m, result, FALSE, TRUE, FALSE, FALSE)

\* lines 199-209 testing `if cached_value:` in place of `is not None`
AfterGet_truthy(g, f, args, kwargs, sfail) ==
    IF g.exc THEN WResult(g.m, PyNone, TRUE, FALSE, FALSE, FALSE)
    ELSE IF g.ret \notin {PyNone, PyFalse, PyInt(0), PyStr(<<>>), PyList(<<>>),
                          PyDict(<<>>)}
    THEN WResult(g.m, g.ret, FALSE, FALSE, FALSE, FALSE)
    ELSE AfterFunc(g.m, Func(f, args, kwargs),
                   cache_key(Decorated[f], args, kwargs), Decorated[f].ttl, sfail)

\* lines 199-209: get_cache has returned g
AfterGet(g, f, args, kwargs, sfail) ==
    IF g.exc THEN WResult(g.m, PyNone, TRUE, FALSE, FALSE, FALSE)
    ELSE IF g.ret # PyNone THEN WResult(g.m, g.ret, FALSE, FALSE, FALSE, FALSE)
    ELSE AfterFunc(g.m, Func(f, args, kwargs),
                   cache_key(Decorated[f], args, kwargs), Decorated[f].ttl, sfail)

\* cached(ttl, key_prefix)(func)'s wrapper(*args, **kwargs); gfail and sfail:
\* the GET of get_cache, the SETEX of set_cache fails
wrapper(m, f, args, kwargs, gfail, sfail) ==
    AfterGet(get_cache(m, cache_key(Decorated[f], args, kwargs), gfail),
             f, args, kwargs, sfail)

(***************************************************************************)
(* database.py: the products table and its query helpers.  `dbfail`: a     *)
(* query of the request raises.                                            *)
(***************************************************************************)
\* the rows of the products table, by id
ProductRows ==
    <<[id |-> 1, name |-> <<"x">>, category |-> <<"a">>, price |-> 5],
      [id |-> 2, name |-> <<"y">>, category |-> <<"b">>, price |-> 0]>>

\* Product.to_dict (no description, no created_at in these rows)
to_dict(p) ==
    PyDict(<<<<<<"i", "d">>, PyInt(p.id)>>,
             <<<<"n", "a", "m", "e">>, PyStr(p.name)>>,
             <<<<"c", "a", "t", "e", "g", "o", "r", "y">>, PyStr(p.category)>>,
             <<<<"p", "r", "i", "c", "e">>, PyFloat(p.price)>>,
             <<<<"d", "e", "s", "c", "r", "i", "p", "t", "i", "o", "n">>, PyNone>>,
             <<<<"c", "r", "e", "a", "t", "e", "d", "_", "a", "t">>, PyNone>>>>)

\* truth of a value, as `if x:` takes it
PyTruthy(x) ==
    CASE x.t = "null" -> FALSE
      [] x.t = "bool" -> x.v
      [] x.t \in {"num", "float"} -> x.v # 0
      [] x.t \in {"str", "list", "dict"} -> Len(x.v) > 0
      [] OTHER -> TRUE

\* the rows query.filter(Product.category == category) keeps, in id order
Filtered(category) ==
    IF PyTruthy(category)
    THEN SelectSeq(ProductRows, LAMBDA p : p.category = category.v)
    ELSE ProductRows

\* query.limit(limit).offset(offset).all(), each row through to_dict
get_products_by_category(category, limit, offset) ==
    LET rows == Filtered(category)
        first == offset + 1
        end == IF offset + limit < Len(rows) THEN offset + limit ELSE Len(rows)
    IN PyList([i \in 1..(IF end >= first THEN end - first + 1 ELSE 0) |->
                  to_dict(rows[first + i - 1])])

count_products_by_category(category) == PyInt(Len(Filtered(category)))

\* the first row of that id through to_dict, or None
get_product_by_id(product_id) ==
    IF \E i \in 1..Len(ProductRows) : ProductRows[i].id = product_id
    THEN to_dict(ProductRows[CHOOSE i \in 1..Len(ProductRows) :
                                ProductRows[i].id = product_id])
    ELSE PyNone

(***************************************************************************)
(* main.py: the request handlers and the logging middleware.  A handler's  *)
(* result is [m, status, ret, exc, stored]: the state after, the response  *)
(* status and body (or exc: an exception left the handler), and whether    *)
(* set_cache returned True.                                                *)
(***************************************************************************)
Resp(m, status, body, stored) ==
    [m |-> m, status |-> status, ret |-> body, exc |-> FALSE, stored |-> stored]
Unhandled(m) ==
    [m |-> m, status |-> 500, ret |-> PyNone, exc |-> TRUE, stored |-> FALSE]

\* d[key] of a dict that has the key
DictGet(d, key) == d.v[CHOOSE j \in 1..Len(d.v) : d.v[j][1] = key][2]
DictHas(d, key) == d.t = "dict" /\ \E j \in 1..Len(d.v) : d.v[j][1] = key

\* {**d, "cached": cached, "request_id": request_id}
WithCacheFlag(d, cached, request_id) ==
    PyDict(PutItem(PutItem(d.v, <<"c", "a", "c", "h", "e", "d">>, PyBool(cached)),
                   <<"r", "e", "q", "u", "e", "s", "t", "_", "i", "d">>, PyStr(request_id)))

\* f"products:category:{category or 'all'}:limit:{limit}:offset:{offset}"
products_key(category, limit, offset) ==
    <<"p", "r", "o", "d", "u", "c", "t", "s", ":", "c", "a", "t", "e", "g", "o", "r", "y", ":">>
    \o (IF PyTruthy(category) THEN Str(category) ELSE <<"a", "l", "l">>)
    \o <<":", "l", "i", "m", "i", "t", ":">> \o Str(PyInt(limit))
    \o <<":", "o", "f", "f", "s", "e", "t", ":">> \o Str(PyInt(offset))

\* f"product:id:{product_id}"
product_key(product_id) == <<"p", "r", "o", "d", "u", "c", "t", ":", "i", "d", ":">> \o Str(PyInt(product_id))

\* the content of the 500 response of a failed query
QueryFailed(request_id) ==
    PyDict(<<<<<<"e", "r", "r", "o", "r">>, PyStr(<<"D", "a", "t", "a", "b", "a", "s", "e", " ", "q", "u", "e", "r", "y", " ", "f", "a", "i", "l", "e", "d">>)>>,
             <<<<"r", "e", "q", "u", "e", "s", "t", "_", "i", "d">>, PyStr(request_id)>>>>)

\* main.py:385-401: the result built from the rows
ProductsResult(request_id, category, limit, offset) ==
    LET products == get_products_by_category(category, limit, offset)
    IN PyDict(<<<<<<"p", "r", "o", "d", "u", "c", "t", "s">>, products>>,
                <<<<"c", "o", "u", "n", "t">>, PyInt(Len(products.v))>>,
                <<<<"t", "o", "t", "a", "l">>, count_products_by_category(category)>>,
                <<<<"c", "a", "t", "e", "g", "o", "r", "y">>, category>>,
                <<<<"l", "i", "m", "i", "t">>, PyInt(limit)>>,
                <<<<"o", "f", "f", "s", "e", "t">>, PyInt(offset)>>,
                <<<<"r", "e", "q", "u", "e", "s", "t", "_", "i", "d">>, PyStr(request_id)>>,
                <<<<"c", "a", "c", "h", "e", "d">>, PyFalse>>>>)

\* main.py:403-417: set_cache has returned s; the handler returns result
ProductsStored(s, result) == Resp(s.m, 200, result, s.ret = PyTrue)

\* lines 382-424 answering 500 when set_cache returns False
get_products_db_set_checked(m, request_id, category, limit, offset, key, dbfail, sfail) ==
    IF dbfail THEN Resp(m, 500, QueryFailed(request_id), FALSE)
    ELSE IF boot.cache_enabled
    THEN IF set_cache(m, key, ProductsResult(request_id, category, limit, offset),
                      120, sfail).ret = PyTrue
         THEN ProductsStored(set_cache(m, key,
                                       ProductsResult(request_id, category, limit, offset),
                                       120, sfail),
                             ProductsResult(request_id, category, limit, offset))
         ELSE Resp(m, 500, QueryFailed(request_id), FALSE)
    ELSE Resp(m, 200, ProductsResult(request_id, category, limit, offset), FALSE)

\* main.py:382-424: the cache gave nothing; query the database
get_products_db(m, request_id, category, limit, offset, key, dbfail, sfail) ==
    IF dbfail THEN Resp(m, 500, QueryFailed(request_id), FALSE)
    ELSE IF boot.cache_enabled
    THEN ProductsStored(set_cache(m, key,
                                  ProductsResult(request_id, category, limit, offset),
                                  120, sfail),
                        ProductsResult(request_id, category, limit, offset))
    ELSE Resp(m, 200, ProductsResult(request_id, category, limit, offset), FALSE)

\* main.py:368-424: get_cache has returned g
get_products_cached(g, request_id, category, limit, offset, key, dbfail, sfail) ==
    IF g.exc THEN Unhandled(g.m)
    ELSE IF PyTruthy(g.ret) THEN Resp(g.m, 200, g.ret, FALSE)
    ELSE get_products_db(g.m, request_id, category, limit, offset, key, dbfail, sfail)

\* GET /products
get_products(m, request_id, category, limit, offset, dbfail, gfail, sfail) ==
    IF boot.cache_enabled
    THEN get_products_cached(get_cache(m, products_key(category, limit, offset), gfail),
                             request_id, category, limit, offset,
                             products_key(category, limit, offset), dbfail, sfail)
    ELSE get_products_db(m, request_id, category, limit, offset,
                         products_key(category, limit, offset), dbfail, sfail)

\* the content of the 404 response
NotFoundBody(request_id, product_id) ==
    PyDict(<<<<<<"e", "r", "r", "o", "r">>, PyStr(<<"P", "r", "o", "d", "u", "c", "t", " ", "n", "o", "t", " ", "f", "o", "u", "n", "d">>)>>,
             <<<<"p", "r", "o", "d", "u", "c", "t", "_", "i", "d">>, PyInt(product_id)>>,
             <<<<"r", "e", "q", "u", "e", "s", "t", "_", "i", "d">>, PyStr(request_id)>>>>)

\* main.py:463-476: set_cache has returned s
ProductStored(s, product, request_id) ==
    Resp(s.m, 200, WithCacheFlag(product, FALSE, request_id), s.ret = PyTrue)

\* main.py:453-483: the cache gave nothing; the query returned product
get_product_db(m, request_id, product_id, product, key, dbfail, sfail) ==
    IF dbfail THEN Resp(m, 500, QueryFailed(request_id), FALSE)
    ELSE IF product = PyNone THEN Resp(m, 404, NotFoundBody(request_id, product_id), FALSE)
    ELSE IF boot.cache_enabled
    THEN ProductStored(set_cache(m, key, product, 300, sfail), product, request_id)
    ELSE Resp(m, 200, WithCacheFlag(product, FALSE, request_id), FALSE)

\* main.py:443-483: get_cache has returned g; `**` of a value that is no
\* mapping raises TypeError outside the try block
get_product_cached(g, request_id, product_id, key, dbfail, sfail) ==
    IF g.exc THEN Unhandled(g.m)
    ELSE IF PyTruthy(g.ret)
    THEN IF g.ret.t = "dict" THEN Resp(g.m, 200, WithCacheFlag(g.ret, TRUE, request_id), FALSE)
         ELSE Unhandled(g.m)
    ELSE get_product_db(g.m, request_id, product_id, get_product_by_id(product_id),
                        key, dbfail, sfail)

\* GET /products/{product_id}
get_product(m, request_id, product_id, dbfail, gfail, sfail) ==
    IF boot.cache_enabled
    THEN get_product_cached(get_cache(m, product_key(product_id), gfail),
                            request_id, product_id, product_key(product_id),
                            dbfail, sfail)
    ELSE get_product_db(m, request_id, product_id, get_product_by_id(product_id),
                        product_key(product_id), dbfail, sfail)

\* GET /items?count=1: one item, its id a uuid4 (the item's random price,
\* category and in_stock, its description and created_at are left out)
get_items(m, request_id, item_id) ==
    Resp(m, 200,
         PyDict(<<<<<<"i", "t", "e", "m", "s">>,
                    PyList(<<PyDict(<<<<<<"i", "d">>, PyStr(item_id)>>,
                                      <<<<"n", "a", "m", "e">>, PyStr(<<"I", "t", "e", "m", " ", "1">>)>>>>)>>)>>,
                  <<<<"c", "o", "u", "n", "t">>, PyInt(1)>>,
                  <<<<"r", "e", "q", "u", "e", "s", "t", "_", "i", "d">>, PyStr(request_id)>>>>),
         FALSE)

\* GET /error; now: datetime.now(timezone.utc).isoformat()
trigger_error(m, request_id, now) ==
    Resp(m, 500,
         PyDict(<<<<<<"e", "r", "r", "o", "r">>, PyStr(<<"I", "n", "t", "e", "n", "t", "i", "o", "n", "a", "l", " ", "e", "r", "r", "o", "r", " ", "f", "o", "r", " ", "t", "e", "s", "t", "i", "n", "g", " ", "p", "u", "r", "p", "o", "s", "e", "s">>)>>,
                  <<<<"m", "e", "s", "s", "a", "g", "e">>, PyStr(<<"T", "h", "i", "s", " ", "e", "n", "d", "p", "o", "i", "n", "t", " ", "i", "n", "t", "e", "n", "t", "i", "o", "n", "a", "l", "l", "y", " ", "r", "e", "t", "u", "r", "n", "s", " ", "a", " ", "5", "0", "0", " ", "e", "r", "r", "o", "r">>)>>,
                  <<<<"r", "e", "q", "u", "e", "s", "t", "_", "i", "d">>, PyStr(request_id)>>,
                  <<<<"t", "i", "m", "e", "s", "t", "a", "m", "p">>, PyStr(now)>>>>),
         FALSE)

\* logging_middleware adding the header to responses of status below 400 only
logging_middleware_success_only(h, request_id) ==
    IF h.exc \/ h.status >= 400 THEN <<>> ELSE <<request_id>>

\* logging_middleware around the handler's outcome h: the X-Request-ID header
\* of the response it returns, none when the exception is raised on
logging_middleware(h, request_id) ==
    IF h.exc THEN <<>> ELSE <<request_id>>

(***************************************************************************)
(* Inputs of the cache-aside operations.                                   *)
(***************************************************************************)
Keys == {<<"a">>, <<"b">>}
\* values handed to set_cache: null, two falsy scalars and one value
\* json.dumps rejects
Values == {PyNone, PyInt(0), PyStr(<<>>), PyObject}
\* TTLs handed to set_cache, in seconds (0: the backend rejects the command)
Ttls == {0, 1, 2}
\* texts another client of the same database may leave under a key: the
\* empty text and a text that is not JSON
RawTexts == {<<>>, <<"{">>}

\* the record of an operation: its name and inputs (key, val, ttl; fn, args,
\* kwargs for a decorated call), what the backend held under the key before a
\* read (held: no text or one), its result (ret, or exc: an exception left it), whether
\* one of its backend calls or its JSON step raised (fault; gfail: the GET did),
\* and, for a decorated call, whether the function's body ran (invoked), whether
\* set_cache was called (wrote) and whether it returned True (stored)
NoOp == [op |-> "none", key |-> <<>>, val |-> PyNone, ttl |-> 0, held |-> <<>>,
         ret |-> PyNone, exc |-> FALSE, fault |-> FALSE, gfail |-> FALSE,
         fn |-> "", args |-> <<>>, kwargs |-> <<>>,
         invoked |-> FALSE, wrote |-> FALSE, stored |-> FALSE,
         rid |-> <<>>, status |-> 0, header |-> <<>>,
         dbfail |-> FALSE, sfail |-> FALSE]

\* the text the backend holds under key: none or one
Held(key) == IF key \in DOMAIN store THEN <<store[key].text>> ELSE <<>>

\* the record of a primitive operation: r is its result, fault whether a
\* backend call or the JSON step of the operation raised.  An HTTP request is
\* recorded with the id the middleware generated (rid), the response's status,
\* body (ret) and X-Request-ID header (none or one), and which of its database
\* query (dbfail), GET (gfail) and SETEX (sfail) raised
OpRecord(op, key, val, ttl, r, fault) ==
    [NoOp EXCEPT !.op = op, !.key = key, !.val = val, !.ttl = ttl,
                 !.ret = r.ret, !.exc = r.exc, !.fault = fault]

\* the writes of texts the backend has received, after the operation recorded
\* as rec: SETEX and another client's SET replace the key's entry, a second
\* passing ages every entry
Written(rec) ==
    IF rec.op = "tick"
    THEN [k \in DOMAIN written |->
             [written[k] EXCEPT !.age = IF @ < 2 THEN @ + 1 ELSE @]]
    ELSE IF rec.op = "external"
    THEN PutKey(written, rec.key, [ttl |-> 0, age |-> 0])
    ELSE IF rec.op = "set" /\ rec.ret = PyTrue
    THEN PutKey(written, rec.key, [ttl |-> rec.ttl, age |-> 0])
    ELSE IF rec.op = "call" /\ rec.stored
    THEN PutKey(written, rec.key, [ttl |-> Decorated[rec.fn].ttl, age |-> 0])
    ELSE IF rec.op \in {"products", "product"} /\ rec.stored
    THEN PutKey(written, rec.key, [ttl |-> rec.ttl, age |-> 0])
    ELSE written

\* the state after a cache function returned r and was recorded as rec
Commit(r, rec) ==
    /\ written' = Written(rec)
    /\ store' = r.m.store
    /\ cmds' = r.m.cmds
    /\ hits' = r.m.hits
    /\ misses' = r.m.misses
    /\ errors' = r.m.errors
    /\ last' = rec
    /\ prev' = last
    /\ nops' = nops + 1

\* what the backend holds under key, seen from outside the code: a decodable
\* value ("found"), nothing ("none"), or a text that is no JSON value ("other")
Holds(key) ==
    IF key \notin DOMAIN store THEN "none"
    ELSE IF json_loads(store[key].text).raised THEN "other"
    ELSE "found"

\* the text GET returns for key is one json.loads is called on and rejects
Undecodable(key) ==
    /\ key \in DOMAIN store
    /\ store[key].text # <<>>
    /\ json_loads(store[key].text).raised

Count(kind) == [seen EXCEPT ![kind] = @ + 1]

(***************************************************************************)
(* The operations, one action each.                                        *)
(***************************************************************************)
GetCache(key, fail) ==
    /\ Commit(get_cache(Mem, key, fail),
              [OpRecord("get", key, PyNone, 0, get_cache(Mem, key, fail),
                        fail \/ Undecodable(key))
                  EXCEPT !.gfail = fail, !.held = Held(key)])
    /\ seen' = IF redis_client = "None" THEN seen
               ELSE IF fail THEN Count("other") ELSE Count(Holds(key))
    /\ UNCHANGED <<redis_client, boot, calls, wcalls, pc, reg, done>>

SetCache(key, value, ttl, fail) ==
    /\ Commit(set_cache(Mem, key, value, ttl, fail),
              OpRecord("set", key, value, ttl, set_cache(Mem, key, value, ttl, fail),
                       fail \/ ttl <= 0 \/ ~Serializable(value)))
    /\ UNCHANGED <<redis_client, boot, calls, wcalls, seen, pc, reg, done>>

DeleteCache(key, fail) ==
    /\ Commit(delete_cache(Mem, key, fail),
              OpRecord("delete", key, PyNone, 0, delete_cache(Mem, key, fail), fail))
    /\ UNCHANGED <<redis_client, boot, calls, wcalls, seen, pc, reg, done>>

ClearCache(fail) ==
    /\ Commit(clear_cache(Mem, fail),
              OpRecord("clear", <<>>, PyNone, 0, clear_cache(Mem, fail), fail))
    /\ UNCHANGED <<redis_client, boot, calls, wcalls, seen, pc, reg, done>>

\* check_cache_connection connecting anew where it finds no handle
CheckCacheConnection_reconnects(fail) ==
    /\ Commit(check_cache_connection(Mem, fail),
              OpRecord("ping", <<>>, PyNone, 0, check_cache_connection(Mem, fail), fail))
    /\ redis_client' = IF redis_client = "None" /\ boot.enabled /\ ~fail
                       THEN "Redis" ELSE redis_client
    /\ boot' = IF redis_client = "None" /\ boot.enabled
               THEN [boot EXCEPT !.attempts = @ + 1] ELSE boot
    /\ UNCHANGED <<calls, wcalls, seen, pc, reg, done>>

CheckCacheConnection(fail) ==
    /\ Commit(check_cache_connection(Mem, fail),
              OpRecord("ping", <<>>, PyNone, 0, check_cache_connection(Mem, fail), fail))
    /\ UNCHANGED <<redis_client, boot, calls, wcalls, seen, pc, reg, done>>

GetCacheStats(fail) ==
    /\ Commit(get_cache_stats(Mem, fail),
              OpRecord("stats", <<>>, PyNone, 0, get_cache_stats(Mem, fail),
                       fail /\ redis_client # "None"))
    /\ UNCHANGED <<redis_client, boot, calls, wcalls, seen, pc, reg, done>>

\* cache_metrics.reset()
Reset ==
    /\ Commit(Return(reset(Mem), PyNone),
              OpRecord("reset", <<>>, PyNone, 0, Return(reset(Mem), PyNone), FALSE))
    /\ seen' = [found |-> 0, none |-> 0, other |-> 0]
    /\ UNCHANGED <<redis_client, boot, calls, wcalls, pc, reg, done>>

\* one second passes in the backend: entries reaching their expiry are removed
Expire(st) ==
    [k \in {x \in DOMAIN st : st[x].ttl # 1} |->
        IF st[k].ttl = 0 THEN st[k] ELSE [st[k] EXCEPT !.ttl = @ - 1]]

Tick ==
    /\ store # <<>>
    /\ Commit(Return([Mem EXCEPT !.store = Expire(@)], PyNone),
              [NoOp EXCEPT !.op = "tick"])
    /\ UNCHANGED <<redis_client, boot, calls, wcalls, seen, pc, reg, done>>

\* another client of the same database stores a text under a key (SET)
ExternalSet(key, text) ==
    /\ Commit(Return([Mem EXCEPT !.store = PutKey(@, key, [text |-> text, ttl |-> 0])],
                     PyNone),
              [NoOp EXCEPT !.op = "external", !.key = key])
    /\ UNCHANGED <<redis_client, boot, calls, wcalls, seen, pc, reg, done>>

\* the state after a call of a decorated function returned r
CallStep(r, f, args, kwargs, key, gfail) ==
    /\ Commit(r, [NoOp EXCEPT !.op = "call", !.fn = f, !.args = args,
                              !.kwargs = kwargs, !.key = key, !.held = Held(key),
                              !.ret = r.ret, !.exc = r.exc, !.gfail = gfail,
                              !.fault = gfail \/ Undecodable(key)
                                           \/ (r.wrote /\ ~r.stored),
                              !.invoked = r.invoked, !.wrote = r.wrote,
                              !.stored = r.stored])
    /\ calls' = [calls EXCEPT ![f] = @ + (IF r.invoked THEN 1 ELSE 0)]
    /\ wcalls' = [wcalls EXCEPT ![f] = @ + 1]
    /\ UNCHANGED <<redis_client, boot, seen, pc, reg, done>>

\* a call of a decorated function
WrapperCall(f, args, kwargs, gfail, sfail) ==
    CallStep(wrapper(Mem, f, args, kwargs, gfail, sfail), f, args, kwargs,
             cache_key(Decorated[f], args, kwargs), gfail)

\* the handlers call the cache and there is a handle: their GET and SETEX are
\* issued, and may fail
CacheOn == boot.cache_enabled /\ redis_client = "Redis"

\* the state after logging_middleware passed a request, with the id rid it
\* generated, to a handler that left h
ServeStep(h, route, rid, key, args, ttl, dbfail, gfail, sfail) ==
    /\ Commit(h, [NoOp EXCEPT !.op = route, !.key = key, !.args = args,
                              !.ttl = ttl, !.held = Held(key),
                              !.ret = h.ret, !.exc = h.exc, !.stored = h.stored,
                              !.rid = rid, !.status = h.status,
                              !.header = logging_middleware(h, rid),
                              !.dbfail = dbfail, !.gfail = gfail /\ CacheOn,
                              !.sfail = sfail /\ CacheOn])
    /\ UNCHANGED <<redis_client, boot, calls, wcalls, seen, pc, reg, done>>

\* GET /products?category=..&limit=..&offset=..
GetProducts(rid, category, limit, offset, dbfail, gfail, sfail) ==
    ServeStep(get_products(Mem, rid, category, limit, offset, dbfail, gfail, sfail),
              "products", rid, products_key(category, limit, offset),
              <<category, PyInt(limit), PyInt(offset)>>, 120, dbfail, gfail, sfail)

\* GET /products/{product_id}
GetProduct(rid, product_id, dbfail, gfail, sfail) ==
    ServeStep(get_product(Mem, rid, product_id, dbfail, gfail, sfail),
              "product", rid, product_key(product_id), <<PyInt(product_id)>>,
              300, dbfail, gfail, sfail)

\* GET /items?count=1
GetItems(rid, item_id) ==
    ServeStep(get_items(Mem, rid, item_id),
              "items", rid, <<>>, <<PyInt(1)>>, 0, FALSE, FALSE, FALSE)

\* GET /error
TriggerError(rid, now) ==
    ServeStep(trigger_error(Mem, rid, now),
              "error", rid, <<>>, <<>>, 0, FALSE, FALSE, FALSE)

(***************************************************************************)
(* Spec: the primitive operations in any order, any of their backend calls *)
(* failing, with and without a handle.                                     *)
(***************************************************************************)
\* the decorated functions, the request-handling threads, the three counters
FnIds == {"fNull", "fEcho", "fLoad"}
Threads == 1..MaxThreads
Counters == {"hits", "misses", "errors"}

\* the state the module's import leaves, the handle apart
InitState ==
    /\ written = <<>>
    /\ store = <<>>
    /\ cmds = 0
    /\ hits = 0
    /\ misses = 0
    /\ errors = 0
    /\ calls = [f \in FnIds |-> 0]
    /\ wcalls = [f \in FnIds |-> 0]
    /\ last = NoOp
    /\ prev = NoOp
    /\ seen = [found |-> 0, none |-> 0, other |-> 0]
    /\ nops = 0
    /\ pc = [t \in Threads |-> "idle"]
    /\ reg = [t \in Threads |-> 0]
    /\ done = [c \in Counters |-> 0]

Init ==
    /\ \E e \in BOOLEAN, c \in BOOLEAN :
          /\ boot = Boot(e, c)
          /\ redis_client = ModuleInit(e, c)
    /\ InitState

Bounded == nops < MaxOps

Next ==
    \/ \E key \in Keys, fail \in BOOLEAN : Bounded /\ GetCache(key, fail)
    \/ \E key \in Keys, value \in Values, ttl \in Ttls, fail \in BOOLEAN :
          Bounded /\ SetCache(key, value, ttl, fail)
    \/ \E key \in Keys, fail \in BOOLEAN : Bounded /\ DeleteCache(key, fail)
    \/ \E fail \in BOOLEAN : Bounded /\ ClearCache(fail)
    \/ \E fail \in BOOLEAN : Bounded /\ CheckCacheConnection(fail)
    \/ Bounded /\ Reset
    \/ Bounded /\ Tick
    \/ \E key \in Keys, text \in RawTexts : Bounded /\ ExternalSet(key, text)

Spec == Init /\ [][Next]_vars

(***************************************************************************)
(* Properties of the primitive operations.                                 *)
(***************************************************************************)
PrimOps == {"get", "set", "delete", "clear"}

\* the documented fallback of each public operation
Fallback(op) == IF op = "get" THEN PyNone ELSE PyFalse

\* C1: with a handle present, an operation one of whose backend calls or whose
\* JSON encode/decode step raised lets no exception reach its caller and
\* returns its fallback: None for get_cache, False for set_cache, delete_cache,
\* clear_cache and check_cache_connection.
C1_FailureFallback ==
    (redis_client = "Redis" /\ last.fault /\ last.op \in PrimOps \cup {"ping"})
        => (~last.exc /\ last.ret = Fallback(last.op))

\* a read met a stored text that does not decode, after a write was refused
C1_Witness ==
    /\ redis_client = "Redis"
    /\ last.op = "get" /\ last.fault /\ Undecodable(last.key)
    /\ prev.op = "set" /\ prev.fault /\ prev.ret = PyFalse

\* C2: with no handle, get_cache returns None and set_cache, delete_cache and
\* clear_cache return False, whatever the key, value and TTL and whatever
\* operations came before.
C2_AbsentBackendResults ==
    (redis_client = "None" /\ last.op \in PrimOps)
        => (~last.exc /\ last.ret = Fallback(last.op))

C2_Witness ==
    /\ redis_client = "None"
    /\ last.op = "set" /\ last.ret = PyFalse
    /\ prev.op = "get" /\ prev.ret = PyNone
    /\ store # <<>>

\* C3: with no handle, a call of get_cache, set_cache, delete_cache or
\* clear_cache changes neither a counter nor the backend and issues no command.
C3_AbsentBackendFrame ==
    [][(redis_client = "None" /\ nops' = nops + 1 /\ last'.op \in PrimOps)
          => UNCHANGED <<store, cmds, hits, misses, errors>>]_vars

\* clear_cache returned with no handle while the backend held an entry
C3_Witness ==
    /\ redis_client = "None"
    /\ last.op = "clear"
    /\ prev.op = "get"
    /\ store # <<>>

\* what get_cache returns for a key that was never written
NotFound == get_cache([Mem EXCEPT !.store = <<>>], <<"a">>, FALSE).ret

\* C5: what get_cache returns for a key just written successfully, null
\* included, differs from what it returns for a key never written.
C5_SentinelDistinct ==
    (/\ redis_client = "Redis"
     /\ prev.op = "set" /\ prev.ret = PyTrue
     /\ last.op = "get" /\ last.key = prev.key /\ ~last.fault)
        => last.ret # NotFound

\* the backend call of the operation recorded as rec raised
BackendRaised(rec) ==
    CASE rec.op = "get" -> rec.gfail
      [] rec.op = "set" -> rec.fault /\ Serializable(rec.val)
      [] OTHER -> rec.fault

\* C11: a call of get_cache, set_cache, delete_cache or clear_cache whose
\* backend call raises leaves the errors counter one higher than it found it.
C11_FailureRecorded ==
    [][(/\ redis_client = "Redis" /\ nops' = nops + 1
        /\ last'.op \in PrimOps /\ BackendRaised(last'))
          => errors' = errors + 1]_vars

\* C13: get_cache meeting a stored text that does not decode returns None and
\* accounts the read as an error alone: errors grows by one, hits and misses
\* stay, as for a read whose GET raised.
C13_UndecodableAsError ==
    [][(/\ redis_client = "Redis" /\ nops' = nops + 1
        /\ last'.op = "get" /\ ~last'.gfail /\ Undecodable(last'.key))
          => (/\ ~last'.exc /\ last'.ret = PyNone
              /\ errors' = errors + 1
              /\ hits' = hits /\ misses' = misses)]_vars

\* C21: with a handle present, a call of get_cache moves exactly one of hits,
\* misses and errors, by one, whatever the GET returns or raises and whatever
\* text the key holds.
C21_OneCounterPerRead ==
    [][(redis_client = "Redis" /\ nops' = nops + 1 /\ last'.op = "get")
          => \/ (hits' = hits + 1 /\ misses' = misses /\ errors' = errors)
             \/ (hits' = hits /\ misses' = misses + 1 /\ errors' = errors)
             \/ (hits' = hits /\ misses' = misses /\ errors' = errors + 1)]_vars

\* what a delete_cache that met no failure leaves: True, and the key gone
DeleteDone ==
    (redis_client = "Redis" /\ last.op = "delete" /\ ~last.fault)
        => (/\ ~last.exc /\ last.ret = PyTrue
            /\ last.key \notin DOMAIN store
            /\ get_cache(Mem, last.key, FALSE).ret = PyNone)

\* a read following a delete_cache of its key finds nothing
ReadAfterDelete ==
    (/\ redis_client = "Redis"
     /\ prev.op = "delete" /\ ~prev.fault
     /\ last.op = "get" /\ last.key = prev.key /\ ~last.gfail)
        => (last.held = <<>> /\ last.ret = PyNone)

\* a delete_cache repeating the one before it returns what that one returned
\* and leaves the backend's content as it found it
DeleteAgain ==
    (/\ redis_client = "Redis" /\ nops' = nops + 1
     /\ last.op = "delete" /\ ~last.fault
     /\ last'.op = "delete" /\ ~last'.fault /\ last'.key = last.key)
        => (last'.ret = last.ret /\ store' = store)

\* C16: with a working backend delete_cache returns True whether or not the
\* key is present, a read of the key after it finds nothing, and deleting
\* twice in a row returns the same and leaves the same backend content as
\* deleting once.
C16_DeleteIdempotent ==
    /\ [](DeleteDone /\ ReadAfterDelete)
    /\ [][DeleteAgain]_vars

\* a key that had been written was deleted twice in a row
C16_Witness ==
    /\ redis_client = "Redis"
    /\ prev.op = "delete" /\ prev.ret = PyTrue
    /\ last.op = "delete" /\ last.ret = PyTrue /\ last.key = prev.key
    /\ last.key \in DOMAIN written /\ last.key \notin DOMAIN store

(***************************************************************************)
(* SpecReads: metrics accounting.  A connected handle, reads of present    *)
(* and absent keys (some failing), writes and resets.                      *)
(***************************************************************************)
InitReads ==
    /\ boot = Boot(TRUE, TRUE)
    /\ redis_client = ModuleInit(TRUE, TRUE)
    /\ InitState

BoundedReads == nops < MaxReads

NextReads ==
    \/ \E key \in Keys, fail \in BOOLEAN : BoundedReads /\ GetCache(key, fail)
    \/ \E key \in Keys, value \in {PyNone, PyInt(0)} :
          BoundedReads /\ SetCache(key, value, 2, FALSE)
    \/ \E key \in Keys : BoundedReads /\ ExternalSet(key, <<"{">>)
    \/ BoundedReads /\ Reset

SpecReads == InitReads /\ [][NextReads]_vars

\* C9: since the last reset, with a connected backend and every read finding
\* either a decodable value (M reads) or nothing (N - M reads), get_stats
\* reports hits = M, misses = N - M, total_requests = N and a hit_rate within
\* half a hundredth of M / N * 100; for N = 0 the hit_rate is 0 and nothing is
\* raised.
C9_MetricsAccounting ==
    LET s == get_stats(Mem)
        M == seen.found
        N == seen.found + seen.none
        d == s.hit_rate * N - M * 10000
    IN (redis_client = "Redis" /\ seen.other = 0)
          => /\ ~s.raised
             /\ s.hits = M
             /\ s.misses = N - M
             /\ s.total_requests = N
             /\ N = 0 => s.hit_rate = 0
             /\ N > 0 => (2 * d <= N /\ 2 * (0 - d) <= N)

\* three reads, one of them a hit: the snapshot shows 33.33
C9_Witness ==
    /\ redis_client = "Redis"
    /\ seen = [found |-> 1, none |-> 2, other |-> 0]
    /\ get_stats(Mem).hit_rate = 3333
    /\ last.op = "get"

(***************************************************************************)
(* SpecRoundTrip: set_cache and get_cache on a connected, working backend, *)
(* over the JSON values: null, booleans, integers, strings (with the       *)
(* characters json escapes), sequences and mappings, nested once.          *)
(***************************************************************************)
Scalars == {PyNone, PyTrue, PyFalse, PyInt(0), PyInt(0 - 7), PyInt(10),
            PyStr(<<>>), PyStr(<<"a">>), PyStr(<<QUOTE>>), PyStr(<<BSLASH, "n">>),
            PyFloat(5)}
\* what the sequences and mappings hold
Elems == {PyNone, PyInt(0 - 7), PyStr(<<QUOTE, " ">>)}
DictKeys == {<<"a">>, <<"k", ":", QUOTE>>}

SeqsUpTo(S, n) == UNION {[1..k -> S] : k \in 0..n}
Injective(q) == \A i, j \in 1..Len(q) : q[i] = q[j] => i = j

Lists(S) == {PyList(q) : q \in SeqsUpTo(S, MaxLen)}
Dicts(S) == {PyDict(q) : q \in {x \in SeqsUpTo(DictKeys \X S, MaxLen) :
                                   Injective([i \in 1..Len(x) |-> x[i][1]])}}
Nested == {PyList(<<x>>) : x \in Lists(Elems) \cup Dicts(Elems)}
             \cup {PyDict(<<<<k, x>>>>) : k \in DictKeys, x \in Lists(Elems)}

\* the key written and read
RtKey == <<"r", "t">>

JsonValues == Scalars \cup Lists(Elems) \cup Dicts(Elems) \cup Nested

\* a value is written under a key that holds nothing (Spec has the overwrites)
NextRoundTrip ==
    \/ \E value \in JsonValues, ttl \in {1, 2} :
          Bounded /\ RtKey \notin DOMAIN store /\ SetCache(RtKey, value, ttl, FALSE)
    \/ Bounded /\ GetCache(RtKey, FALSE)
    \/ Bounded /\ DeleteCache(RtKey, FALSE)

SpecRoundTrip == InitReads /\ [][NextRoundTrip]_vars

\* C4: on a working backend, set_cache(k, v, t) of a JSON value v with t > 0
\* succeeds, and get_cache(k) called next returns a value equal to v.
C4_RoundTrip ==
    (/\ redis_client = "Redis"
     /\ prev.op = "set" /\ prev.ttl > 0 /\ ~prev.fault
     /\ last.op = "get" /\ last.key = prev.key /\ ~last.gfail)
        => (prev.ret = PyTrue /\ ~last.exc /\ last.ret = prev.val)

\* a sequence holding a two-entry mapping came back as written
C4_Witness ==
    /\ prev.op = "set" /\ last.op = "get" /\ last.ret = prev.val
    /\ last.ret.t = "list" /\ Len(last.ret.v) = 1
    /\ last.ret.v[1].t = "dict" /\ Len(last.ret.v[1].v) = 2
    /\ last.ret.v[1].v[2] = <<<<"k", ":", QUOTE>>, PyStr(<<QUOTE, " ">>)>>

(***************************************************************************)
(* SpecMemo: calls of the decorated functions, with and without a handle,  *)
(* the GET or the SETEX of a call failing, and time passing.               *)
(***************************************************************************)
Call(args, kwargs) == [args |-> args, kwargs |-> kwargs]
KwA == <<<<"a">>, PyInt(1)>>
KwB == <<<<"b">>, PyInt(2)>>

\* the calls made of each decorated function
Shapes ==
    [fNull |-> {Call(<<>>, <<>>), Call(<<PyInt(1)>>, <<>>)},
     fEcho |-> {Call(<<PyInt(0)>>, <<>>), Call(<<PyStr(<<>>)>>, <<>>),
                Call(<<PyFalse>>, <<>>), Call(<<>>, <<KwA, KwB>>),
                Call(<<>>, <<KwB, KwA>>), Call(<<PyInt(1)>>, <<KwB>>)},
     fLoad |-> {}]

NextMemo ==
    \/ \E f \in FnIds : \E c \in Shapes[f], gfail \in BOOLEAN, sfail \in BOOLEAN :
          Bounded /\ WrapperCall(f, c.args, c.kwargs, gfail, sfail)
    \/ Bounded /\ Tick

SpecMemo == Init /\ [][NextMemo]_vars

\* the value the backend held under the key when the last call began
HeldValue == json_loads(last.held[1])

\* C6: a decorated call whose key holds a value, falsy ones (0, "", False)
\* included, returns that value and neither runs the function's body nor
\* calls set_cache.
C6_HitSkipsProducer ==
    (/\ redis_client = "Redis"
     /\ last.op = "call" /\ ~last.gfail
     /\ last.held # <<>> /\ ~HeldValue.raised /\ HeldValue.val # PyNone)
        => (/\ ~last.exc
            /\ last.ret = HeldValue.val
            /\ ~last.invoked
            /\ ~last.wrote)

\* a call stored the empty string and the next call was served it
C6_Witness ==
    /\ prev.op = "call" /\ prev.stored /\ prev.ret = PyStr(<<>>)
    /\ last.op = "call" /\ last.held = <<<<QUOTE, QUOTE>>>>
    /\ last.ret = PyStr(<<>>) /\ ~last.invoked /\ calls["fEcho"] = 1

\* the keys of the calls of the function that returns None
NullKeys == {cache_key(Decorated["fNull"], c.args, c.kwargs) : c \in Shapes["fNull"]}

\* C7: a decorated function returning None runs on every call of its wrapper:
\* its body has run as often as the wrapper, set_cache is never called for its
\* result and its keys hold no entry.
C7_NullNeverCached ==
    /\ calls["fNull"] = wcalls["fNull"]
    /\ NullKeys \cap DOMAIN store = {}
    /\ (last.op = "call" /\ last.fn = "fNull")
          => (last.invoked /\ ~last.wrote /\ last.ret = PyNone)

\* the same call made twice in a row on a working backend ran the body twice
C7_Witness ==
    /\ redis_client = "Redis"
    /\ prev.op = "call" /\ prev.fn = "fNull" /\ ~prev.fault
    /\ last.op = "call" /\ last.fn = "fNull" /\ ~last.fault
    /\ last.args = prev.args
    /\ calls["fNull"] >= 2

KwSet(kw) == {kw[i] : i \in 1..Len(kw)}

\* `key_prefix or func.__name__` of a decorated function
KeyBase(f) ==
    IF Decorated[f].key_prefix # <<>> THEN Decorated[f].key_prefix
    ELSE Decorated[f].name

\* C8: two decorated calls with the same prefix (or, without one, the same
\* function name), the same positional arguments and the same keyword
\* name/value pairs, in whatever order these are passed, compute the same key;
\* made one after the other, the second is served the entry the first stored.
C8_KeyDeterministic ==
    (/\ prev.op = "call" /\ last.op = "call" /\ KeyBase(prev.fn) = KeyBase(last.fn)
     /\ prev.args = last.args /\ KwSet(prev.kwargs) = KwSet(last.kwargs))
        => /\ last.key = prev.key
           /\ (redis_client = "Redis" /\ prev.stored /\ ~last.gfail)
                 => (~last.invoked /\ last.ret = prev.ret)

\* f(a=1, b=2) stored its result and f(b=2, a=1) was served it
C8_Witness ==
    /\ prev.op = "call" /\ prev.kwargs = <<KwA, KwB>> /\ prev.stored
    /\ last.op = "call" /\ last.kwargs = <<KwB, KwA>> /\ ~last.invoked
    /\ last.ret = prev.ret /\ last.ret = PyList(<<PyInt(1), PyInt(2)>>)

\* the first two operations were the same call of a decorated function whose
\* body returns a value other than None
SameCallTwice ==
    /\ nops = 2
    /\ prev.op = "call" /\ last.op = "call"
    /\ prev.fn = last.fn /\ prev.args = last.args /\ prev.kwargs = last.kwargs
    /\ Func(last.fn, last.args, last.kwargs) # PyNone

\* C12: the same call of a decorated function made twice from the initial
\* state (empty cache, zero counters), its body returning a value other than
\* None.  With no handle the body runs twice and no counter moves; with a
\* working backend the body runs once, the second call returns the value the
\* first stored, and the counters show one miss and one hit.
C12_EndToEnd ==
    SameCallTwice =>
        /\ redis_client = "None"
              => (/\ calls[last.fn] = 2
                  /\ prev.ret = last.ret
                  /\ hits = 0 /\ misses = 0 /\ errors = 0)
        /\ (redis_client = "Redis" /\ ~prev.fault /\ ~last.fault)
              => (/\ calls[last.fn] = 1
                  /\ prev.invoked /\ prev.stored /\ ~last.invoked
                  /\ last.ret = prev.ret
                  /\ last.ret = Func(last.fn, last.args, last.kwargs)
                  /\ hits = 1 /\ misses = 1 /\ errors = 0)

\* f(1, b=2) called twice on a working backend: one run of the body
C12_Witness ==
    /\ SameCallTwice
    /\ redis_client = "Redis" /\ ~prev.fault /\ ~last.fault
    /\ last.args = <<PyInt(1)>> /\ last.kwargs = <<KwB>>
    /\ calls["fEcho"] = 1 /\ hits = 1 /\ misses = 1

(***************************************************************************)
(* SpecLife: every operation of the cache layer after each outcome of the  *)
(* import: flag off, connection refused, connected.                        *)
(***************************************************************************)
NextLife ==
    \/ \E fail \in BOOLEAN : Bounded /\ GetCache(<<"a">>, fail)
    \/ \E value \in {PyInt(0), PyObject}, fail \in BOOLEAN :
          Bounded /\ SetCache(<<"a">>, value, 2, fail)
    \/ \E fail \in BOOLEAN : Bounded /\ DeleteCache(<<"a">>, fail)
    \/ \E fail \in BOOLEAN : Bounded /\ ClearCache(fail)
    \/ \E gfail \in BOOLEAN, sfail \in BOOLEAN :
          Bounded /\ WrapperCall("fEcho", <<PyInt(0)>>, <<>>, gfail, sfail)
    \/ \E fail \in BOOLEAN : Bounded /\ GetCacheStats(fail)
    \/ \E fail \in BOOLEAN : Bounded /\ CheckCacheConnection(fail)

SpecLife == Init /\ [][NextLife]_vars

\* the handle the import leaves: None with the flag off (and no connection
\* attempted) and None when the connection or its ping failed
HandleFromStartup ==
    /\ ~boot.enabled => (redis_client = "None" /\ boot.attempts = 0)
    /\ (boot.enabled /\ ~boot.connected) => redis_client = "None"
    /\ (boot.enabled /\ boot.connected) => redis_client = "Redis"

\* C14: the handle is what the import left, None with the flag off (no
\* connection attempted) or the connection failing, and no operation of the
\* layer assigns it or connects again.
C14_HandleSetOnce ==
    /\ []HandleFromStartup
    /\ [][redis_client' = redis_client /\ boot'.attempts = boot.attempts]_vars

\* the connection failed at import; a decorated call, a write and a liveness
\* check later the handle is still None
C14_Witness ==
    /\ boot.enabled /\ ~boot.connected /\ boot.attempts = 1
    /\ redis_client = "None"
    /\ nops = 3 /\ calls["fEcho"] = 1
    /\ prev.op = "set" /\ last.op = "ping" /\ last.ret = PyFalse

\* the local fields of a stats dict or of a snapshot
LocalFields(d) ==
    [hits |-> d.hits, misses |-> d.misses, errors |-> d.errors,
     hit_rate |-> d.hit_rate, total_requests |-> d.total_requests]

\* C17: get_cache_stats raises nothing and returns the snapshot of the
\* counters as they were when it was called, changing none of them; when
\* redis_client.info() raises, or there is no handle, it adds no redis_info.
C17_StatsLocalIntact ==
    [][(nops' = nops + 1 /\ last'.op = "stats")
          => (/\ ~last'.exc
              /\ LocalFields(last'.ret.v) = LocalFields(get_stats(Mem))
              /\ last'.ret.v.hits = hits /\ last'.ret.v.misses = misses
              /\ last'.ret.v.errors = errors
              /\ last'.ret.v.total_requests = hits + misses
              /\ UNCHANGED <<hits, misses, errors, store>>
              /\ (last'.fault \/ redis_client = "None")
                    => last'.ret.v.redis_info = <<>>
              /\ (~last'.fault /\ redis_client = "Redis")
                    => Len(last'.ret.v.redis_info) = 1)]_vars

\* after a hit and a failed read, get_cache_stats met a failing info()
C17_Witness ==
    /\ redis_client = "Redis"
    /\ last.op = "stats" /\ last.fault /\ ~last.exc
    /\ last.ret.v.redis_info = <<>>
    /\ last.ret.v.errors = 1 /\ errors = 1

(***************************************************************************)
(* SpecApp: HTTP requests to the application, whatever REDIS_ENABLED is    *)
(* set to, the database and the cache calls of a request failing or not.   *)
(***************************************************************************)
\* os.getenv(name, default) of a variable that is unset or set to `env`
Getenv(env, default) == IF env = "unset" THEN default ELSE env

\* the import of cache.py (REDIS_ENABLED defaults to "true") and of main.py
\* (CACHE_ENABLED = settings.REDIS_ENABLED, which defaults to "false")
AppBoot(env, connected) ==
    [enabled |-> Getenv(env, "true") = "true",
     connected |-> connected,
     attempts |-> IF Getenv(env, "true") = "true" THEN 1 ELSE 0,
     cache_enabled |-> Getenv(env, "false") = "true"]

InitApp ==
    /\ \E env \in {"unset", "true", "false"}, c \in BOOLEAN :
          /\ boot = AppBoot(env, c)
          /\ redis_client = ModuleInit(Getenv(env, "true") = "true", c)
    /\ InitState

\* str(uuid.uuid4()): the values a draw may give
Uuids == {<<"u">>, <<"v">>}
\* datetime.now(timezone.utc).isoformat()
Times == {<<"T", "0">>, <<"T", "1">>}
\* the requests' parameters
Queries == {[category |-> PyNone, limit |-> 2, offset |-> 0],
            [category |-> PyNone, limit |-> 1, offset |-> 1],
            [category |-> PyStr(<<"a">>), limit |-> 1, offset |-> 0]}
ProductIds == {1, 3}
Routes == {"products", "product", "items", "error"}

BoundedApp == nops < MaxRequests

NextApp ==
    \/ \E rid \in Uuids, q \in Queries,
          dbfail \in BOOLEAN, gfail \in BOOLEAN, sfail \in BOOLEAN :
          BoundedApp /\ GetProducts(rid, q.category, q.limit, q.offset,
                                    dbfail, gfail, sfail)
    \/ \E rid \in Uuids, product_id \in ProductIds,
          dbfail \in BOOLEAN, gfail \in BOOLEAN, sfail \in BOOLEAN :
          BoundedApp /\ GetProduct(rid, product_id, dbfail, gfail, sfail)
    \/ \E rid \in Uuids, item_id \in Uuids : BoundedApp /\ GetItems(rid, item_id)
    \/ \E rid \in Uuids, now \in Times : BoundedApp /\ TriggerError(rid, now)

SpecApp == InitApp /\ [][NextApp]_vars

\* the cache gave the request nothing: no handle, or its GET raised
CacheOut(rec) == boot.cache_enabled /\ (redis_client = "None" \/ rec.gfail)

\* the rows a /products request with these parameters is to return
RowsOf(args) == get_products_by_category(args[1], args[2].v, args[3].v)

\* C18: a GET /products or GET /products/{id} whose database query succeeds
\* (the product existing) while the cache is out -- no handle, or the GET
\* failing, the SETEX failing or not -- is answered 200 with what the
\* database returned.
C18_OutageServedFromDb ==
    (last.op \in {"products", "product"} /\ ~last.dbfail /\ CacheOut(last))
        => /\ ~last.exc
           /\ last.op = "products"
                 => (/\ last.status = 200
                     /\ DictGet(last.ret, <<"p", "r", "o", "d", "u", "c", "t", "s">>) = RowsOf(last.args)
                     /\ DictGet(last.ret, <<"c", "o", "u", "n", "t">>) = PyInt(Len(RowsOf(last.args).v))
                     /\ DictGet(last.ret, <<"c", "a", "c", "h", "e", "d">>) = PyFalse)
           /\ (last.op = "product" /\ get_product_by_id(last.args[1].v) # PyNone)
                 => (/\ last.status = 200
                     /\ \A j \in 1..Len(get_product_by_id(last.args[1].v).v) :
                           DictGet(last.ret, get_product_by_id(last.args[1].v).v[j][1])
                              = get_product_by_id(last.args[1].v).v[j][2]
                     /\ DictGet(last.ret, <<"c", "a", "c", "h", "e", "d">>) = PyFalse)

\* both cache calls of a GET /products/1 failed and the product was served
C18_Witness ==
    /\ redis_client = "Redis" /\ boot.cache_enabled
    /\ last.op = "product" /\ last.args = <<PyInt(1)>>
    /\ last.gfail /\ last.sfail /\ ~last.dbfail
    /\ last.status = 200 /\ errors >= 2
    /\ DictGet(last.ret, <<"n", "a", "m", "e">>) = PyStr(<<"x">>)

\* the header and the body of a response name the id generated for its request
RequestIdCarried ==
    (last.op \in Routes /\ ~last.exc)
        => /\ last.header = <<last.rid>>
           /\ last.op \in {"items", "error"}
                 => (/\ DictHas(last.ret, <<"r", "e", "q", "u", "e", "s", "t", "_", "i", "d">>)
                     /\ DictGet(last.ret, <<"r", "e", "q", "u", "e", "s", "t", "_", "i", "d">>) = PyStr(last.rid))

ServedFromCache(rec) ==
    /\ CacheOn /\ ~rec.gfail
    /\ rec.held # <<>>
    /\ ~json_loads(rec.held[1]).raised
    /\ PyTruthy(json_loads(rec.held[1]).val)

\* C22: the body of every 200 response of GET /products and
\* GET /products/{id} holds the request_id of the request answered, and its
\* "cached" field is true exactly when the body was served from the cache.
C22_CachedBodyOwnRequest ==
    (last.op \in {"products", "product"} /\ ~last.exc /\ last.status = 200)
        => (/\ DictHas(last.ret, <<"r", "e", "q", "u", "e", "s", "t", "_", "i", "d">>)
            /\ DictGet(last.ret, <<"r", "e", "q", "u", "e", "s", "t", "_", "i", "d">>) = PyStr(last.rid)
            /\ DictHas(last.ret, <<"c", "a", "c", "h", "e", "d">>)
            /\ DictGet(last.ret, <<"c", "a", "c", "h", "e", "d">>) = PyBool(ServedFromCache(last)))

(***************************************************************************)
(* SpecExpiry: writes with a ttl of one or two seconds on a working        *)
(* backend, seconds passing, and reads.                                    *)
(***************************************************************************)
NextExpiry ==
    \/ \E key \in Keys, value \in {PyInt(0), PyNone}, ttl \in {1, 2} :
          BoundedReads /\ SetCache(key, value, ttl, FALSE)
    \/ BoundedReads /\ Tick
    \/ \E key \in Keys : BoundedReads /\ GetCache(key, FALSE)
    \/ \E key \in Keys : BoundedReads /\ DeleteCache(key, FALSE)

SpecExpiry == InitReads /\ [][NextExpiry]_vars

\* C15: a read of a key whose last write was a set_cache with ttl 1 made two
\* or more seconds before finds nothing and returns None.
C15_Expiry ==
    (/\ last.op = "get" /\ ~last.gfail
     /\ last.key \in DOMAIN written
     /\ written[last.key].ttl = 1 /\ written[last.key].age >= 2)
        => (last.held = <<>> /\ last.ret = PyNone /\ ~last.exc)

\* "a" was written with ttl 1, "b" with ttl 2 one second later; one more
\* second on, the read of "a" finds nothing while "b" is still held
C15_Witness ==
    /\ last.op = "get" /\ last.key = <<"a">> /\ last.ret = PyNone
    /\ written = (<<"a">> :> [ttl |-> 1, age |-> 2]) @@ (<<"b">> :> [ttl |-> 2, age |-> 1])
    /\ DOMAIN store = {<<"b">>}

(***************************************************************************)
(* SpecThreads: request-handling threads calling the recorders.  A call    *)
(* `self.<counter> += 1` reads the attribute and then writes it; another   *)
(* thread may run between the two.                                         *)
(***************************************************************************)
CounterValue(c) ==
    CASE c = "hits" -> hits
      [] c = "misses" -> misses
      [] c = "errors" -> errors

\* thread t enters record_hit / record_miss / record_error and reads the counter
Load(t, c) ==
    /\ pc[t] = "idle"
    /\ pc' = [pc EXCEPT ![t] = c]
    /\ reg' = [reg EXCEPT ![t] = CounterValue(c)]
    /\ nops' = nops + 1
    /\ UNCHANGED <<redis_client, boot, store, cmds, hits, misses, errors, calls, wcalls,
                   last, prev, seen, done, written>>

\* thread t writes the counter back, one more than it read, and returns
Store(t) ==
    /\ pc[t] # "idle"
    /\ hits' = IF pc[t] = "hits" THEN reg[t] + 1 ELSE hits
    /\ misses' = IF pc[t] = "misses" THEN reg[t] + 1 ELSE misses
    /\ errors' = IF pc[t] = "errors" THEN reg[t] + 1 ELSE errors
    /\ done' = [done EXCEPT ![pc[t]] = @ + 1]
    /\ pc' = [pc EXCEPT ![t] = "idle"]
    /\ UNCHANGED <<redis_client, boot, store, cmds, calls, wcalls, last, prev, seen,
                   nops, reg, written>>

NextThreads ==
    \/ \E t \in Threads, c \in Counters : Bounded /\ Load(t, c)
    \/ \E t \in Threads : Store(t)

SpecThreads == Init /\ [][NextThreads]_vars

\* C10: once every call of a recorder has returned, each counter has grown by
\* the number of calls of its recorder.
C10_NoLostIncrement ==
    (\A t \in Threads : pc[t] = "idle")
        => (hits = done["hits"] /\ misses = done["misses"] /\ errors = done["errors"])

(***************************************************************************)
(* SpecFlight: threads calling the wrapper of one decorated function with  *)
(* the same arguments.  A call is its three calls in turn -- get_cache,    *)
(* the function, set_cache -- and other threads may run between them.      *)
(***************************************************************************)
\* the key of g(), the call every thread makes
FlightKey == cache_key(Decorated["fLoad"], <<>>, <<>>)
\* what the source of truth may hold when the body runs
SourceValues == {PyInt(1), PyInt(2)}

\* the record of a call of g() that returned w
FlightRecord(w, held, gfail) ==
    [NoOp EXCEPT !.op = "call", !.fn = "fLoad", !.key = FlightKey, !.held = held,
                 !.ret = w.ret, !.exc = w.exc, !.gfail = gfail,
                 !.fault = gfail \/ (w.wrote /\ ~w.stored),
                 !.invoked = w.invoked, !.wrote = w.wrote, !.stored = w.stored]

\* lines 191-201: thread t computes the key and calls get_cache, which returns
\* g; a value other than None is returned to the caller at once
EnterStep(t, g, gfail) ==
    /\ pc[t] = "idle"
    /\ wcalls["fLoad"] < MaxOps
    /\ wcalls' = [wcalls EXCEPT !["fLoad"] = @ + 1]
    /\ IF g.ret # PyNone
       THEN /\ Commit(g, FlightRecord(WResult(g.m, g.ret, FALSE, FALSE, FALSE, FALSE),
                                      Held(FlightKey), gfail))
            /\ UNCHANGED pc
       ELSE /\ Commit(g, [NoOp EXCEPT !.op = "miss", !.fn = "fLoad",
                                       !.key = FlightKey, !.held = Held(FlightKey),
                                       !.gfail = gfail])
            /\ pc' = [pc EXCEPT ![t] = "missed"]
    /\ UNCHANGED <<redis_client, boot, calls, seen, reg, done>>

Enter(t, gfail) == EnterStep(t, get_cache(Mem, FlightKey, gfail), gfail)

\* line 203 run only while no other thread is between its miss and its write
Invoke_single_flight(t, v) ==
    /\ pc[t] = "missed"
    /\ \A u \in Threads \ {t} : pc[u] # "invoked"
    /\ pc' = [pc EXCEPT ![t] = "invoked"]
    /\ reg' = [reg EXCEPT ![t] = v]
    /\ calls' = [calls EXCEPT !["fLoad"] = @ + 1]
    /\ UNCHANGED <<redis_client, boot, written, store, cmds, hits, misses, errors,
                   wcalls, last, prev, seen, nops, done>>

\* line 203: thread t, having missed, runs the body, which returns v
Invoke(t, v) ==
    /\ pc[t] = "missed"
    /\ pc' = [pc EXCEPT ![t] = "invoked"]
    /\ reg' = [reg EXCEPT ![t] = v]
    /\ calls' = [calls EXCEPT !["fLoad"] = @ + 1]
    /\ UNCHANGED <<redis_client, boot, written, store, cmds, hits, misses, errors,
                   wcalls, last, prev, seen, nops, done>>

\* lines 206-209: thread t stores the body's result and returns it
WriteStep(t, w) ==
    /\ pc[t] = "invoked"
    /\ Commit(w, FlightRecord(w, <<>>, FALSE))
    /\ pc' = [pc EXCEPT ![t] = "idle"]
    /\ UNCHANGED <<redis_client, boot, calls, wcalls, seen, reg, done>>

Write(t, sfail) ==
    WriteStep(t, AfterFunc(Mem, reg[t], FlightKey, Decorated["fLoad"].ttl, sfail))

NextFlight ==
    \/ \E t \in Threads, gfail \in BOOLEAN : Enter(t, gfail)
    \/ \E t \in Threads, v \in SourceValues : Invoke(t, v)
    \/ \E t \in Threads, sfail \in BOOLEAN : Write(t, sfail)

SpecFlight == InitReads /\ [][NextFlight]_vars

\* no step of a call waits for another thread: whatever the others are doing,
\* a thread that missed can run the body and one that ran it can write
NoWaiting ==
    \A t \in Threads :
        /\ pc[t] = "missed" => \A v \in SourceValues : ENABLED Invoke(t, v)
        /\ pc[t] = "invoked" => ENABLED Write(t, FALSE)

\* a write that succeeds leaves the writer's result under the key, whatever
\* another thread had stored there
LastWriterWins ==
    \A t \in Threads :
        (pc[t] = "invoked" /\ pc'[t] = "idle" /\ last'.stored)
            => (/\ FlightKey \in DOMAIN store'
                /\ store'[FlightKey].text = json_dumps(reg[t]).text)

\* C20: calls of the wrapper with the same key do not wait for one another --
\* a thread that missed runs the body and writes whatever the other threads
\* do, so two threads that both miss both run it and both write -- and the
\* entry left is that of the write made last.
C20_NoSingleFlight ==
    /\ []NoWaiting
    /\ [][LastWriterWins]_vars

\* two calls both missed the absent key, both ran the body, both stored their
\* result, and the key holds the result written last
C20_Witness ==
    /\ calls["fLoad"] = 2 /\ wcalls["fLoad"] = 2
    /\ misses = 2 /\ hits = 0 /\ errors = 0
    /\ prev.op = "call" /\ prev.stored /\ prev.ret = PyInt(2)
    /\ last.op = "call" /\ last.stored /\ last.ret = PyInt(1)
    /\ store[FlightKey].text = <<"1">>
    /\ \A t \in Threads : pc[t] = "idle"

(***************************************************************************)
(* SpecCollide: calls of one decorated function whose arguments differ but *)
(* whose str() texts, joined with ":", need not.                           *)
(***************************************************************************)
\* f(1) and f("1"); f("a:b") and f("a", "b"); f("b:2") and f(b=2)
CollidingCalls ==
    {Call(<<PyInt(1)>>, <<>>), Call(<<PyStr(<<"1">>)>>, <<>>),
     Call(<<PyStr(<<"a", ":", "b">>)>>, <<>>),
     Call(<<PyStr(<<"a">>), PyStr(<<"b">>)>>, <<>>),
     Call(<<PyStr(<<"b", ":", "2">>)>>, <<>>), Call(<<>>, <<KwB>>)}

NextCollide ==
    \E c \in CollidingCalls, gfail \in BOOLEAN, sfail \in BOOLEAN :
        Bounded /\ WrapperCall("fEcho", c.args, c.kwargs, gfail, sfail)

SpecCollide == Init /\ [][NextCollide]_vars

\* C23: two decorated calls compute the same key only if they have the same
\* prefix (or, without one, the same function name), the same positional
\* arguments and the same keyword arguments; so a call that is served from
\* the cache returns what its own function returns for its own arguments.
C23_KeyInjective ==
    /\ (prev.op = "call" /\ last.op = "call" /\ prev.key = last.key)
          => (/\ KeyBase(prev.fn) = KeyBase(last.fn)
              /\ prev.args = last.args
              /\ KwSet(prev.kwargs) = KwSet(last.kwargs))
    /\ (redis_client = "Redis" /\ last.op = "call" /\ ~last.exc /\ ~last.invoked)
          => last.ret = Func(last.fn, last.args, last.kwargs)

=============================================================================
